---- MODULE Spec2Model ----
(***************************************************************************)
(* Session layer of the window.ai low-level extension (window_ai_ll.ts):   *)
(* MlcAIModel.createSequence and MlcAiSequence.advance / sample / logits / *)
(* clone / destroy over one MLCEngine.  Every async method is cut at its   *)
(* awaits: the part of the body up to the first await runs in the step     *)
(* that issues the call, the rest in the step that resumes it.  The engine *)
(* (prefill, forwardTokens, sampleTokenFromLogits, device.sync) and the    *)
(* tvmjs NDArray are external: their results are chosen nondeterministically*)
(* when the awaited promise settles.                                       *)
(***************************************************************************)
EXTENDS Integers, Sequences, FiniteSets, Bags, TLC

\* ---------------------------------------------------------------- bounds
\* number of sessions createSequence may hand out
MaxSeqs == 2
\* number of async calls (advance, sample) issued in one run
MaxCalls == 3
\* largest filledKVCacheLength the engine reports after a prefill
MaxPrompt == 1
\* length of the logits array handed to surprise()
VocabSize == 3
\* the entries of that array range over 0..MaxLogit
MaxLogit == 2

\* ------------------------------------------------------------- constants
\* `undefined` in the engine's _window_ai_seq slot
NoSeq == 0
\* `undefined` in a session's _logits field (no NDArray has number 0)
Undefined == [id |-> 0, disposed |-> 0]
\* engine.config.context_window_size: set by the model's configuration
context_window_size == 8

Seqs == 1..MaxSeqs
\* token lists passed to advance(appendTokens, ...)
AppendChoices == {<<>>, <<1, 2>>}
\* values passed as advance(..., backtrack)
BacktrackChoices == {0, 1}
PromptLens == 0..MaxPrompt
\* the Float32Array logits() resolves to
LogitVectors == [1..VocabSize -> 0..MaxLogit]

\* the Uint32Array masks: one 32-bit word covers the vocabulary
Masks == {<<w>> : w \in 0..(2^VocabSize - 1)}

VARIABLES
    nseq,                 \* sessions 1..nseq have been constructed
    _window_ai_seq,       \* MLCEngine2._window_ai_seq
    lowLevel,             \* pipeline.lowLevel
    filledKVCacheLength,  \* pipeline.filledKVCacheLength
    _tokens,              \* MlcAiSequence._tokens, per session
    _promptSize,          \* MlcAiSequence._promptSize, per session
    _logits,              \* MlcAiSequence._logits, per session: an NDArray or Undefined
    nbufs,                \* NDArrays the engine has returned, per session
    leaked,               \* per session: an NDArray was dropped with no dispose()
    calls,                \* the async calls now suspended at an await (a bag)
    ncalls,               \* number of async calls issued so far
    ev,                   \* what the last step did
    watch,                \* which groups of history variables this run records
    destroyed,            \* history: destroy() was called on the session
    justDestroyed,        \* history: no advance or sample step on the session since its destroy()
    prefillRuns,          \* history: engine.prefill invocations per session
    primed,               \* history: the session's first advance got logits from prefill and has completed
    seenPrimed,           \* history: the sessions primed when the session's first advance was issued
    releasedAt,           \* history: nseq when destroy() first cleared the engine's claim, or NoSeq
    reported,             \* history: the filledKVCacheLength read after each prefill of the session that returned logits
    appends,              \* history: per session, the appends pushed, the one the held buffer answers, the latest that succeeded
    sur                   \* one surprise(mask) evaluation: the logits read, the mask, the value returned

progVars == <<nseq, _window_ai_seq, lowLevel, filledKVCacheLength,
              _tokens, _promptSize, _logits, nbufs, leaked, calls, ncalls>>
histVars == <<watch, destroyed, justDestroyed, prefillRuns, primed,
              seenPrimed, releasedAt, reported, appends>>
vars == <<nseq, _window_ai_seq, lowLevel, filledKVCacheLength,
          _tokens, _promptSize, _logits, nbufs, leaked, calls, ncalls, ev,
          watch,
          destroyed, justDestroyed, prefillRuns, primed, seenPrimed,
          releasedAt, reported, appends, sur>>

\* ----------------------------------------------------------- call records
\* a suspended call: the method, the session, the await it is suspended at,
\* its arguments, whether it is the session's first advance, (sample) the
\* buffer whose contents were copied into the clone, and (advance suspended
\* in forwardTokens, when the "append" history is recorded) the number of
\* its append among the appends of the session
AdvanceRec(s, pc, app, bt, first) ==
    [op |-> "advance", seq |-> s, pc |-> pc, app |-> app, bt |-> bt,
     first |-> first, buf |-> Undefined, serial |-> 0]

SampleRec(s, pc, b) ==
    [op |-> "sample", seq |-> s, pc |-> pc, app |-> <<>>, bt |-> 0,
     first |-> FALSE, buf |-> b, serial |-> 0]

\* the call issued by the current step: it is not yet among the suspended ones
NewCall ==
    [op |-> "none", seq |-> NoSeq, pc |-> "new", app |-> <<>>, bt |-> 0,
     first |-> FALSE, buf |-> Undefined, serial |-> 0]

\* the suspended calls once call `old` has run on: it settles ...
Settled(old) ==
    IF old = NewCall THEN calls ELSE calls (-) SetToBag({old})

\* ... or suspends again as rec
Suspended(old, rec) == Settled(old) (+) SetToBag({rec})

\* the last step: operation, phase ("call" = the step that issued it,
\* "resume" = the step after an await, "again" = a destroy() that follows a
\* destroy() of the session), session, outcome ("pending" while
\* suspended, "ok", or the error thrown), the engine function the step
\* invoked, the buffer whose contents the step read
Ev(op, phase, s, outcome, engine, rd) ==
    [op |-> op, phase |-> phase, seq |-> s, outcome |-> outcome,
     engine |-> engine, read |-> rd]

\* ------------------------------------------------------------- NDArray
\* An NDArray is only ever referenced by the _logits field of the session
\* whose call the engine returned it to (sample copies it), so the field
\* holds the array itself: its number among the arrays returned to the
\* session and how often dispose() was called on it.  An array the field no
\* longer references can never be disposed again.
NewBuf(id) == [id |-> id, disposed |-> 0]

\* `lg?.dispose()`: the count of dispose() calls on one array is kept up to 2
Dispose(lg) ==
    IF lg = Undefined THEN lg
    ELSE [lg EXCEPT !.disposed = IF @ < 2 THEN @ + 1 ELSE @]

\* whether assigning over the field value lg drops an array that was never
\* disposed
Drops(lg) == lg # Undefined /\ lg.disposed = 0

\* outcomes of reading an array (toArray / copyFrom): a live array is read;
\* reading a disposed array is outside the NDArray's contract and either
\* throws or yields the stale contents
ReadOutcomes(lg) ==
    IF lg.disposed = 0 THEN {"ok"} ELSE {"ok", "disposed"}

\* ------------------------------------------------------------- getters
\* get promptSize: fails ("Prompt size not initialized yet") iff _promptSize == 0
promptSizeFails(s) == _promptSize[s] = 0

\* get promptSize: the value returned when it does not fail
promptSize(s) == _promptSize[s]

maxTokens(s) == context_window_size - _promptSize[s]

tokensSoFar(s) == Len(_tokens[s])

tokensLeft(s) == maxTokens(s) - tokensSoFar(s)

\* Array.prototype.splice(-backtrack, backtrack): drops the last
\* min(backtrack, length) elements
Splice(toks, backtrack) ==
    SubSeq(toks, 1, IF Len(toks) > backtrack THEN Len(toks) - backtrack ELSE 0)

\* The history variables are recorded in groups, each only in the runs of
\* the specification whose properties read it: "destroyed" (destroyed),
\* "redestroy" (justDestroyed, releasedAt) and "prime" (primed,
\* seenPrimed).  A group that is not recorded keeps its initial value; the
\* program variables do not depend on any of them.  prefillRuns is always
\* recorded.
Recorded(group, new, old) == IF group \in watch THEN new ELSE old

\* The groups "prefill" (reported) and "append" (appends, and the serial of
\* a suspended call) are recorded in the same way.  appends[s].n counts the
\* non-empty appends pushed on the session's tokens (line 175), .held is
\* the number of the append whose forwardTokens returned the buffer the
\* session holds (0: the buffer came from prefill), .ok the number of the
\* latest append whose forwardTokens returned logits.
AfterPrefill(ap, s) == [ap EXCEPT ![s].held = 0]

AfterPush(ap, s) == [ap EXCEPT ![s].n = @ + 1]

AfterForward(ap, s, k) ==
    [ap EXCEPT ![s].held = k, ![s].ok = IF k > @ THEN k ELSE @]

\* the result of a float division num / den of non-negative numbers:
\* Infinity when den = 0 < num, NaN when both are 0
Quotient(num, den) == [num |-> num, den |-> den]

\* no surprise() evaluation
NoSurprise ==
    [l |-> <<>>, mask |-> <<>>, done |-> FALSE, ret |-> Quotient(0, 0)]

\* history bookkeeping of an advance, sample or destroy step on session s
Touch(s, isDestroy) ==
    /\ justDestroyed' = Recorded("redestroy",
                           [justDestroyed EXCEPT ![s] = isDestroy],
                           justDestroyed)
    /\ UNCHANGED <<watch, sur>>

\* history bookkeeping of an advance call that settles after its prefill
\* (if it ran one) returned logits
Settle(s, first) ==
    primed' = Recorded("prime",
                IF first THEN [primed EXCEPT ![s] = TRUE] ELSE primed, primed)

\* ------------------------------------------------------------- Init
\* the state after the engine is loaded, before any session is constructed
Start ==
    /\ nseq = 0
    /\ _window_ai_seq = NoSeq
    /\ lowLevel = FALSE
    /\ filledKVCacheLength = 0
    /\ _tokens = [s \in Seqs |-> <<>>]
    /\ _promptSize = [s \in Seqs |-> 0]
    /\ _logits = [s \in Seqs |-> Undefined]
    /\ nbufs = [s \in Seqs |-> 0]
    /\ leaked = [s \in Seqs |-> FALSE]
    /\ calls = EmptyBag
    /\ ncalls = 0
    /\ ev = Ev("init", "call", NoSeq, "ok", "none", Undefined)
    /\ destroyed = [s \in Seqs |-> FALSE]
    /\ justDestroyed = [s \in Seqs |-> FALSE]
    /\ prefillRuns = [s \in Seqs |-> 0]
    /\ primed = [s \in Seqs |-> FALSE]
    /\ seenPrimed = [s \in Seqs |-> {}]
    /\ releasedAt = NoSeq
    /\ reported = [s \in Seqs |-> <<>>]
    /\ appends = [s \in Seqs |-> [n |-> 0, held |-> 0, ok |-> 0]]

Init == Start /\ watch = {} /\ sur = NoSurprise

InitDestroyed == Start /\ watch = {"destroyed"} /\ sur = NoSurprise

InitRedestroy == Start /\ watch = {"redestroy"} /\ sur = NoSurprise

InitPrime == Start /\ watch = {"prime", "destroyed"} /\ sur = NoSurprise

InitPrefill == Start /\ watch = {"prefill"} /\ sur = NoSurprise

InitAppend == Start /\ watch = {"append"} /\ sur = NoSurprise

\* no session; a logits array and a mask for one surprise() evaluation
InitSurprise ==
    /\ Start /\ watch = {}
    /\ sur \in {[NoSurprise EXCEPT !.l = l, !.mask = m] :
                   l \in LogitVectors, m \in Masks}

\* ------------------------------------------------------------- createSequence
\* createSequence as it would be if the constructor bound the new session
\* to the KV cache
createSequence_Claims ==
    /\ nseq < MaxSeqs
    /\ nseq' = nseq + 1
    /\ _tokens' = [_tokens EXCEPT ![nseq + 1] = <<>>]
    /\ _window_ai_seq' = nseq + 1
    /\ ev' = Ev("createSequence", "call", nseq + 1, "ok", "none", Undefined)
    /\ UNCHANGED <<lowLevel, filledKVCacheLength, _promptSize,
                   _logits, nbufs, leaked, calls, ncalls, watch, destroyed,
                   justDestroyed, prefillRuns, primed, seenPrimed, releasedAt,
                   reported, appends, sur>>

\* MlcAIModel.createSequence -> new MlcAiSequence(engine, options)
createSequence ==
    /\ nseq < MaxSeqs
    /\ nseq' = nseq + 1
    /\ _tokens' = [_tokens EXCEPT ![nseq + 1] = <<>>]
    /\ ev' = Ev("createSequence", "call", nseq + 1, "ok", "none", Undefined)
    /\ UNCHANGED <<_window_ai_seq, lowLevel, filledKVCacheLength, _promptSize,
                   _logits, nbufs, leaked, calls, ncalls, watch, destroyed,
                   justDestroyed, prefillRuns, primed, seenPrimed, releasedAt,
                   reported, appends, sur>>

\* ------------------------------------------------------------- advance
\* whether advance takes the priming branch (line 150: `!this._promptSize`)
Unprimed(ps) == ps = 0

\* whether advance may go on in the other branch (line 164)
HoldsClaim(s, claim) == claim = s

\* lines 169-178 of advance, run by call `old` with the session's logits
\* field lg as the code before them left it
AdvanceTail(old, s, app, bt, first, lg, phase) ==
    LET \* the tail resumes only after a prefill that returned logits
        base == IF phase = "resume" THEN AfterPrefill(appends, s) ELSE appends
    IN
    IF bt > 0
    THEN \* splice, then throw
         /\ appends' = Recorded("append", base, appends)
         /\ _tokens' = [_tokens EXCEPT ![s] = Splice(@, bt)]
         /\ _logits' = [_logits EXCEPT ![s] = lg]
         /\ calls' = Settled(old)
         /\ ev' = Ev("advance", phase, s, "Backtracking not implemented",
                     "none", Undefined)
         /\ Settle(s, first)
    ELSE IF Len(app) > 0
    THEN \* push, dispose, call forwardTokens and suspend
         /\ _tokens' = [_tokens EXCEPT ![s] = @ \o app]
         /\ _logits' = [_logits EXCEPT ![s] = Dispose(lg)]
         /\ calls' = Suspended(old,
                [AdvanceRec(s, "forward", app, bt, first) EXCEPT
                    !.serial = Recorded("append", base[s].n + 1, 0)])
         /\ ev' = Ev("advance", phase, s, "pending", "forwardTokens", Undefined)
         /\ appends' = Recorded("append", AfterPush(base, s), appends)
         /\ UNCHANGED primed
    ELSE /\ appends' = Recorded("append", base, appends)
         /\ _tokens' = _tokens
         /\ _logits' = [_logits EXCEPT ![s] = lg]
         /\ calls' = Settled(old)
         /\ ev' = Ev("advance", phase, s, "ok", "none", Undefined)
         /\ Settle(s, first)

\* advance(appendTokens, backtrack) up to its first await (or its return)
AdvanceCall(s, app, bt) ==
    /\ s \in 1..nseq
    /\ ncalls < MaxCalls
    /\ ncalls' = ncalls + 1
    /\ Touch(s, FALSE)
    /\ UNCHANGED <<nseq, filledKVCacheLength, destroyed, releasedAt, reported>>
    /\ LET first == prefillRuns[s] = 0 IN
       IF Unprimed(_promptSize[s])
       THEN \* lines 150-154: claim the engine, call prefill and suspend
            /\ _window_ai_seq' = s
            /\ _promptSize' = [_promptSize EXCEPT ![s] = -1]
            /\ lowLevel' = TRUE
            /\ prefillRuns' = [prefillRuns EXCEPT ![s] = @ + 1]
            /\ calls' = Suspended(NewCall, AdvanceRec(s, "prefill", app, bt, first))
            /\ ev' = Ev("advance", "call", s, "pending", "prefill", Undefined)
            /\ seenPrimed' = Recorded("prime",
                    IF first
                    THEN [seenPrimed EXCEPT ![s] = {t \in Seqs : primed[t]}]
                    ELSE seenPrimed, seenPrimed)
            /\ UNCHANGED <<_tokens, _logits, nbufs, leaked, primed, appends>>
       ELSE IF ~HoldsClaim(s, _window_ai_seq)
       THEN \* lines 164-166
            /\ calls' = Settled(NewCall)
            /\ ev' = Ev("advance", "call", s,
                        "Cannot advance a different AISequence", "none",
                        Undefined)
            /\ Settle(s, first)
            /\ UNCHANGED <<_window_ai_seq, _promptSize, lowLevel,
                           prefillRuns, _tokens, _logits, nbufs, leaked,
                           seenPrimed, appends>>
       ELSE /\ AdvanceTail(NewCall, s, app, bt, first, _logits[s], "call")
            /\ UNCHANGED <<_window_ai_seq, _promptSize, lowLevel, prefillRuns,
                           nbufs, leaked, seenPrimed>>

\* `await this._engine.prefill(...)` of call r settles and advance runs on
\* (lines 154-178); res is what the engine did, n the filledKVCacheLength
\* it reports
PrefillReturn(r, res, n) ==
    /\ BagIn(r, calls)
    /\ r.op = "advance" /\ r.pc = "prefill"
    /\ LET s == r.seq IN
       /\ Touch(s, FALSE)
       /\ UNCHANGED <<nseq, ncalls, _window_ai_seq, lowLevel, destroyed,
                      prefillRuns, seenPrimed, releasedAt>>
       /\ CASE res = "throws" ->
               /\ n = 0
               /\ calls' = Settled(r)
               /\ ev' = Ev("advance", "resume", s, "engine error", "none",
                           Undefined)
               /\ UNCHANGED <<_tokens, _promptSize, _logits, nbufs, leaked,
                              filledKVCacheLength, primed, reported, appends>>
            [] res = "undefined" ->
               \* lines 157-159
               /\ n = 0
               /\ calls' = Settled(r)
               /\ ev' = Ev("advance", "resume", s, "Can't get logits", "none",
                           Undefined)
               /\ UNCHANGED <<_tokens, _promptSize, _logits, nbufs, leaked,
                              filledKVCacheLength, primed, reported, appends>>
            [] res = "logits" ->
               \* lines 160-162, then the rest of advance
               /\ filledKVCacheLength' = n
               /\ _promptSize' = [_promptSize EXCEPT ![s] = n]
               /\ reported' = Recorded("prefill",
                                [reported EXCEPT ![s] = Append(@, n)], reported)
               /\ nbufs' = [nbufs EXCEPT ![s] = @ + 1]
               /\ UNCHANGED leaked
               /\ AdvanceTail(r, s, r.app, r.bt, r.first,
                              NewBuf(nbufs[s] + 1), "resume")

\* `await forwardTokens(appendTokens)` of call r settles (line 177)
ForwardReturn(r, res) ==
    /\ BagIn(r, calls)
    /\ r.op = "advance" /\ r.pc = "forward"
    /\ LET s == r.seq IN
       /\ Touch(s, FALSE)
       /\ Settle(s, r.first)
       /\ calls' = Settled(r)
       /\ UNCHANGED <<nseq, ncalls, _window_ai_seq, lowLevel,
                      filledKVCacheLength, _tokens, _promptSize, destroyed,
                      prefillRuns, seenPrimed, releasedAt, reported>>
       /\ CASE res = "throws" ->
               /\ ev' = Ev("advance", "resume", s, "engine error", "none",
                           Undefined)
               /\ UNCHANGED <<_logits, nbufs, leaked, appends>>
            [] res = "logits" ->
               /\ nbufs' = [nbufs EXCEPT ![s] = @ + 1]
               /\ leaked' = [leaked EXCEPT ![s] = @ \/ Drops(_logits[s])]
               /\ _logits' = [_logits EXCEPT ![s] = NewBuf(nbufs[s] + 1)]
               /\ appends' = Recorded("append",
                                AfterForward(appends, s, r.serial), appends)
               /\ ev' = Ev("advance", "resume", s, "ok", "none", Undefined)

\* ------------------------------------------------------------- clone
\* clone() as it would be if it returned a session sharing the source's
\* history
Clone_Aliases(s) ==
    /\ s \in 1..nseq
    /\ nseq < MaxSeqs
    /\ nseq' = nseq + 1
    /\ _tokens' = [_tokens EXCEPT ![nseq + 1] = _tokens[s]]
    /\ ev' = Ev("clone", "call", s, "ok", "none", Undefined)
    /\ UNCHANGED <<_window_ai_seq, lowLevel, filledKVCacheLength, _promptSize,
                   _logits, nbufs, leaked, calls, ncalls, histVars, sur>>

\* clone(): throws
Clone(s) ==
    /\ s \in 1..nseq
    /\ ev' = Ev("clone", "call", s, "Not implemented", "none", Undefined)
    /\ UNCHANGED <<progVars, histVars, sur>>

\* ------------------------------------------------------------- sample
\* whether sample / logits throw "No logits" (lines 186, 253)
NoLogits(lg) == lg = Undefined

\* sample() up to `await this._logits.device.sync()` (lines 186-191)
SampleCall(s) ==
    /\ s \in 1..nseq
    /\ ncalls < MaxCalls
    /\ ncalls' = ncalls + 1
    /\ IF NoLogits(_logits[s])
       THEN /\ calls' = Settled(NewCall)
            /\ ev' = Ev("sample", "call", s, "No logits", "none", Undefined)
       ELSE /\ calls' = Suspended(NewCall, SampleRec(s, "sync", Undefined))
            /\ ev' = Ev("sample", "call", s, "pending", "device.sync",
                        Undefined)
    /\ Touch(s, FALSE)
    /\ UNCHANGED <<nseq, _window_ai_seq, lowLevel, filledKVCacheLength,
                   _tokens, _promptSize, _logits, nbufs, leaked, destroyed,
                   prefillRuns, primed, seenPrimed, releasedAt, reported,
                   appends>>

\* the sync of call r settles; sample copies this._logits as it is now into
\* a clone and calls sampleTokenFromLogits (lines 192-205); o is what
\* reading the array does
SampleSynced(r, o) ==
    /\ BagIn(r, calls)
    /\ r.op = "sample" /\ r.pc = "sync"
    /\ LET s == r.seq
           b == _logits[s]
       IN
       /\ IF b = Undefined
          THEN \* `this._logits.shape` of undefined
               /\ o = "ok"
               /\ calls' = Settled(r)
               /\ ev' = Ev("sample", "resume", s, "TypeError", "none",
                           Undefined)
          ELSE /\ o \in ReadOutcomes(b)
               /\ IF o = "disposed"
                  THEN /\ calls' = Settled(r)
                       /\ ev' = Ev("sample", "resume", s, "disposed", "none", b)
                  ELSE /\ calls' = Suspended(r, SampleRec(s, "sampling", b))
                       /\ ev' = Ev("sample", "resume", s, "pending",
                                   "sampleTokenFromLogits", b)
       /\ Touch(s, FALSE)
    /\ UNCHANGED <<nseq, ncalls, _window_ai_seq, lowLevel, filledKVCacheLength,
                   _tokens, _promptSize, _logits, nbufs, leaked, destroyed,
                   prefillRuns, primed, seenPrimed, releasedAt, reported,
                   appends>>

\* sample() as it would be if it committed the token it returns
SampleReturn_Commits(r, res) ==
    /\ BagIn(r, calls)
    /\ r.op = "sample" /\ r.pc = "sampling"
    /\ ev' = Ev("sample", "resume", r.seq,
                IF res = "throws" THEN "engine error" ELSE "ok",
                "none", r.buf)
    /\ Touch(r.seq, FALSE)
    /\ calls' = Settled(r)
    /\ _tokens' = [_tokens EXCEPT ![r.seq] =
                      IF res = "throws" THEN @ ELSE Append(@, 1)]
    /\ UNCHANGED <<nseq, ncalls, _window_ai_seq, lowLevel, filledKVCacheLength,
                   _promptSize, _logits, nbufs, leaked, destroyed,
                   prefillRuns, primed, seenPrimed, releasedAt, reported,
                   appends>>

\* `await chat.sampleTokenFromLogits(clone, ...)` of call r settles
\* (lines 199-207)
SampleReturn(r, res) ==
    /\ BagIn(r, calls)
    /\ r.op = "sample" /\ r.pc = "sampling"
    /\ ev' = Ev("sample", "resume", r.seq,
                IF res = "throws" THEN "engine error" ELSE "ok",
                "none", r.buf)
    /\ Touch(r.seq, FALSE)
    /\ calls' = Settled(r)
    /\ UNCHANGED <<nseq, ncalls, _window_ai_seq, lowLevel, filledKVCacheLength,
                   _tokens, _promptSize, _logits, nbufs, leaked, destroyed,
                   prefillRuns, primed, seenPrimed, releasedAt, reported,
                   appends>>

\* ------------------------------------------------------------- logits
\* logits(): no await in its body, so the call runs to its return or throw
\* in one step.  The arrays the engine returns are float32, so toArray()
\* yields a Float32Array.
Logits(s, o) ==
    /\ s \in 1..nseq
    /\ IF NoLogits(_logits[s])
       THEN /\ o = "ok"
            /\ ev' = Ev("logits", "call", s, "No logits", "none", Undefined)
       ELSE /\ o \in ReadOutcomes(_logits[s])
            /\ ev' = Ev("logits", "call", s, o, "none", _logits[s])
    /\ UNCHANGED <<progVars, histVars, sur>>

\* ------------------------------------------------------------- surprise
\* isAllowed(mask, i): mask[i >>> 5] & (1 << (i & 31)), i counted from 0
isAllowed(mask, i) == (mask[(i \div 32) + 1] \div 2^(i % 32)) % 2 = 1

\* the running maximum of lines 235-240
MaxOf(l) == CHOOSE m \in {l[i] : i \in 1..Len(l)} :
                \A i \in 1..Len(l) : l[i] <= m

\* Math.exp(d) for d in -MaxLogit..0, in units of exp(-MaxLogit) and with
\* base 2: positive and increasing, which is all the quotient of two sums
\* of it being 1, Infinity or NaN depends on
Exp(d) == 2^(d + MaxLogit)

RECURSIVE SumExp(_, _, _)
\* the sum of Exp(l[i] - max) over the indices i (from 0) in idx
SumExp(l, max, idx) ==
    IF idx = {} THEN 0
    ELSE LET i == CHOOSE j \in idx : TRUE
         IN Exp(l[i + 1] - max) + SumExp(l, max, idx \ {i})

\* surprise(mask) once `await this.logits()` has resolved to l
\* (lines 235-249)
surprise(l, mask) ==
    LET max == MaxOf(l)
        all == 0..(Len(l) - 1)
        sum == SumExp(l, max, all)
        sumMasked == SumExp(l, max, {i \in all : ~isAllowed(mask, i)})
    IN Quotient(sum, sumMasked)

\* one evaluation of surprise on the inputs drawn at the start
Surprise ==
    /\ ~sur.done
    /\ sur' = [sur EXCEPT !.done = TRUE, !.ret = surprise(sur.l, sur.mask)]
    /\ UNCHANGED <<progVars, ev, histVars>>

\* ------------------------------------------------------------- destroy
\* destroy() as it would be without lines 269-271: the claim is left alone
ClaimAfterDestroy_Kept(s, claim) == claim

\* destroy() as it would be without the test of line 269: the claim is
\* cleared whoever holds it
ClaimAfterDestroy_Cleared(s, claim) == NoSeq

\* the engine's claim after destroy() of session s (lines 269-271)
ClaimAfterDestroy(s, claim) ==
    IF claim = s THEN NoSeq ELSE claim

\* the session's _logits field after destroy() (lines 267-268)
LogitsAfterDestroy(lg) == Undefined

\* destroy(): synchronous
Destroy(s) ==
    /\ s \in 1..nseq
    /\ _logits' = [_logits EXCEPT ![s] = LogitsAfterDestroy(Dispose(@))]
    /\ _window_ai_seq' = ClaimAfterDestroy(s, _window_ai_seq)
    /\ ev' = Ev("destroy", IF justDestroyed[s] THEN "again" ELSE "call", s,
                "ok", "none", Undefined)
    /\ destroyed' = Recorded("destroyed", [destroyed EXCEPT ![s] = TRUE],
                        destroyed)
    /\ releasedAt' = Recorded("redestroy",
                        IF releasedAt = NoSeq /\ _window_ai_seq = s
                        THEN nseq ELSE releasedAt, releasedAt)
    /\ Touch(s, TRUE)
    /\ UNCHANGED <<nseq, lowLevel, filledKVCacheLength, _tokens, _promptSize,
                   nbufs, leaked, calls, ncalls, prefillRuns, primed, seenPrimed,
                   reported, appends>>

\* ------------------------------------------------------------- Next
Next ==
    \/ createSequence
    \/ \E s \in Seqs, app \in AppendChoices, bt \in BacktrackChoices :
           AdvanceCall(s, app, bt)
    \/ \E r \in BagToSet(calls), res \in {"logits", "undefined", "throws"},
          n \in PromptLens : PrefillReturn(r, res, n)
    \/ \E r \in BagToSet(calls), res \in {"logits", "throws"} :
           ForwardReturn(r, res)
    \/ \E s \in Seqs : Clone(s)
    \/ \E s \in Seqs : SampleCall(s)
    \/ \E r \in BagToSet(calls), o \in {"ok", "disposed"} : SampleSynced(r, o)
    \/ \E r \in BagToSet(calls), res \in {"token", "throws"} :
           SampleReturn(r, res)
    \/ \E s \in Seqs, o \in {"ok", "disposed"} : Logits(s, o)
    \/ \E s \in Seqs : Destroy(s)

Spec == Init /\ [][Next]_vars

\* the same program, with the "destroyed" history recorded
SpecDestroyed == InitDestroyed /\ [][Next]_vars

\* the same program, with the "redestroy" history recorded
SpecRedestroy == InitRedestroy /\ [][Next]_vars

\* the same program, with the "prime" and "destroyed" history recorded
SpecPrime == InitPrime /\ [][Next]_vars

\* the same program, with the "prefill" history recorded
SpecPrefill == InitPrefill /\ [][Next]_vars

\* the same program, with the "append" history recorded
SpecAppend == InitAppend /\ [][Next]_vars

\* surprise() as a function of the logits and the mask
SpecSurprise == InitSurprise /\ [][Surprise]_vars

\* ------------------------------------------------------------- vocabulary
ConflictingSession == "Cannot advance a different AISequence"

UnsupportedBacktrack == "Backtracking not implemented"

\* some advance call on session s is suspended at an await
AdvanceInFlight(s) ==
    \E r \in BagToSet(calls) : r.op = "advance" /\ r.seq = s

\* some call on session s is suspended at an await
InFlight(s) == \E r \in BagToSet(calls) : r.seq = s

\* the first advance of a had completed when the first advance of b was
\* issued, and that of b has completed too
PrimedThen(a, b) == a \in seenPrimed[b] /\ primed[b]

\* no session other than those primed before b has issued an advance
LastToPrime(b) ==
    \A c \in Seqs \ {b} : c \in seenPrimed[b] \/ prefillRuns[c] = 0

\* the step just taken issued an advance call on session s
AdvanceIssued(s) ==
    ev'.op = "advance" /\ ev'.phase = "call" /\ ev'.seq = s

\* the step just taken ended an advance call on session s with an error
AdvanceFailed(s) ==
    ev'.op = "advance" /\ ev'.seq = s /\ ev'.outcome \notin {"ok", "pending"}

\* ------------------------------------------------------------- claims

\* C1: once session a has primed (its first advance completed) and session b
\* has primed after it, every advance issued on a fails with the
\* conflicting-session error, appends no token and invokes no engine
\* function, while an advance issued on b (the last session to prime, not
\* destroyed) is not rejected as conflicting.
C1_DisplacedSessionCannotAdvance ==
    [][\A a, b \in Seqs : PrimedThen(a, b) =>
          /\ AdvanceIssued(a) =>
                /\ ev'.outcome = ConflictingSession
                /\ ev'.engine = "none"
                /\ _tokens'[a] = _tokens[a]
          /\ (AdvanceIssued(b) /\ LastToPrime(b) /\ ~destroyed[b]) =>
                ev'.outcome # ConflictingSession]_vars

\* C2: the engine's forwardTokens is only invoked for the session that holds
\* the KV-cache claim at the moment of the invocation.
C2_ForwardOnlyByClaimHolder ==
    ev.engine = "forwardTokens" => _window_ai_seq = ev.seq

\* C3: every advance, logits, sample and clone call issued on a session
\* after its destroy() fails, and such an advance neither runs a prefill nor
\* takes the KV-cache claim.
C3_DestroyedSessionIsTerminal ==
    [][\A s \in Seqs :
          (destroyed[s] /\ ev'.seq = s /\ ev'.phase = "call"
             /\ ev'.op \in {"advance", "logits", "sample", "clone"}) =>
                /\ ev'.outcome \notin {"ok", "pending"}
                /\ ev'.engine # "prefill"
                /\ _window_ai_seq' = _window_ai_seq]_vars

\* C4: destroy() raises no error; a destroy() that follows a destroy() of
\* the same session with no advance or sample step on it in between changes
\* nothing; destroy() of the claim holder leaves the engine's claim empty;
\* an advance on an unprimed session takes the claim and starts the prefill,
\* and an advance on the claim holder is never rejected as conflicting.
C4_DestroyIdempotentAndReleases ==
    [][\A s \in Seqs :
          /\ (ev'.op = "destroy" /\ ev'.seq = s) =>
                /\ ev'.outcome = "ok"
                /\ justDestroyed[s] => UNCHANGED progVars
                /\ _window_ai_seq = s => _window_ai_seq' = NoSeq
                /\ _logits'[s] = Undefined
          /\ (AdvanceIssued(s) /\ _promptSize[s] = 0) =>
                /\ _window_ai_seq' = s
                /\ ev'.engine = "prefill"
          /\ (AdvanceIssued(s) /\ _window_ai_seq = s) =>
                ev'.outcome # ConflictingSession]_vars

\* C4 witness: a session was destroyed while it held the claim and then
\* destroyed again, and a session constructed after the first destroy() has
\* primed and advanced, holds the claim and has live logits.
C4_Witness ==
    /\ ev.op = "destroy" /\ ev.phase = "again"
    /\ releasedAt # NoSeq
    /\ \E n \in Seqs :
          /\ n > releasedAt /\ n <= nseq
          /\ nbufs[n] >= 2
          /\ Len(_tokens[n]) > 0
          /\ _window_ai_seq = n
          /\ _logits[n] # Undefined /\ _logits[n].disposed = 0
          /\ ~InFlight(n)

\* C5: a logits() or sample() call on a session on which no advance was
\* issued performs advance([]) first: once the call is issued, the prefill
\* of the session has been started and the call does not fail for want of
\* logits.
C5_ReadPrimesTheSession ==
    (ev.op \in {"logits", "sample"} /\ ev.phase = "call") =>
        /\ prefillRuns[ev.seq] >= 1
        /\ ev.outcome # "No logits"

\* C6: an advance that fails with the backtracking-not-supported error
\* leaves the session's tokens exactly as they were.
C6_BacktrackLeavesTokens ==
    [][\A s \in Seqs :
          (ev'.op = "advance" /\ ev'.seq = s
             /\ ev'.outcome = UnsupportedBacktrack) =>
                _tokens'[s] = _tokens[s]]_vars

\* C7: a logits() or sample() call issued while an advance on the session
\* is in flight waits for it: the step that issues the call reads no buffer
\* and ends neither with a result nor with an error.
C7_ReadWaitsForAdvance ==
    (ev.op \in {"logits", "sample"} /\ ev.phase = "call"
       /\ AdvanceInFlight(ev.seq)) =>
        /\ ev.outcome = "pending"
        /\ ev.read = Undefined

\* C8: the step in which an advance fails leaves the session's tokens as
\* they were, and the logits buffer the session held is still held and
\* live, so that logits() returns its contents.
C8_FailedAdvanceKeepsState ==
    [][\A s \in Seqs : AdvanceFailed(s) =>
          /\ _tokens'[s] = _tokens[s]
          /\ _logits[s] # Undefined =>
                (_logits'[s] = _logits[s] /\ _logits'[s].disposed = 0)]_vars

\* C9: once destroy() was called on a session and no call is in flight on
\* it, the session holds no logits buffer and no buffer the engine returned
\* to it was dropped without a dispose().
C9_DestroyReleasesEveryBuffer ==
    \A s \in Seqs :
        (destroyed[s] /\ ~InFlight(s)) =>
            (_logits[s] = Undefined /\ ~leaked[s])

\* C10: the prefill is run at most once per session, and a prompt size that
\* was set never changes.
C10_PromptSizeSetOnce ==
    [][\A s \in Seqs :
          /\ prefillRuns'[s] <= 1
          /\ _promptSize[s] > 0 => _promptSize'[s] = _promptSize[s]]_vars

\* the engine-reported length of the session's latest prefill that returned
\* logits
LastReported(s) == reported[s][Len(reported[s])]

\* C11: reading promptSize fails in every state in which no prefill of the
\* session has returned logits, and otherwise returns the length the engine
\* reported for the prefill.
C11_PromptSizeFailsUntilPrefilled ==
    \A s \in 1..nseq :
        IF reported[s] = <<>>
        THEN promptSizeFails(s)
        ELSE ~promptSizeFails(s) /\ promptSize(s) = LastReported(s)

\* C12: in every state of a session of which a prefill has returned logits,
\* tokensLeft is the context window size minus the reported prompt length
\* minus the number of tokens; and the step of an advance that appends the
\* tokens app lowers tokensLeft by Len(app).
C12_TokensLeftFormula ==
    [][\A s \in Seqs :
          /\ reported'[s] # <<>> =>
                tokensLeft(s)' =
                    context_window_size - LastReported(s)' - Len(_tokens'[s])
          /\ \A app \in AppendChoices :
                (reported[s] # <<>> /\ AdvanceCall(s, app, 0)
                   /\ ev'.engine = "forwardTokens") =>
                      tokensLeft(s)' = tokensLeft(s) - Len(app)]_vars

\* a prefill of session s has returned logits and no advance is in flight
\* on s
Active(s) == reported[s] # <<>> /\ ~AdvanceInFlight(s)

\* C13: advance([], 0) on an Active session that holds the claim returns at
\* once, invokes no engine function, releases no buffer and leaves the
\* tokens and the logits buffer of every session as they were.
C13_EmptyAdvanceIsNoOp ==
    [][\A s \in Seqs :
          (Active(s) /\ _window_ai_seq = s /\ AdvanceCall(s, <<>>, 0)) =>
              /\ ev'.outcome = "ok"
              /\ ev'.engine = "none"
              /\ _tokens' = _tokens
              /\ _logits' = _logits]_vars

C15_CreateSequenceIsInert ==
    [][ev'.op = "createSequence" =>
          /\ ev'.engine = "none"
          /\ ev'.seq = nseq' /\ nseq' = nseq + 1
          /\ UNCHANGED <<_window_ai_seq, lowLevel, filledKVCacheLength, calls>>
          /\ _tokens'[nseq'] = <<>>
          /\ _logits'[nseq'] = Undefined
          /\ Unprimed(_promptSize'[nseq'])
          /\ \A s \in 1..nseq :
                /\ _tokens'[s] = _tokens[s]
                /\ _logits'[s] = _logits[s]
                /\ _promptSize'[s] = _promptSize[s]]_vars

\* a session has just been created while another session holds the claim
\* and live logits
C15_Witness ==
    /\ ev.op = "createSequence"
    /\ _window_ai_seq \notin {NoSeq, ev.seq}
    /\ _logits[_window_ai_seq] # Undefined
    /\ _logits[_window_ai_seq].disposed = 0
    /\ Len(_tokens[_window_ai_seq]) > 0

\* session a has primed, has not been destroyed, and another session issued
\* its first advance (taking the claim) after a had primed
Displaced(a) ==
    /\ primed[a] /\ ~destroyed[a]
    /\ \E b \in Seqs \ {a} : a \in seenPrimed[b]

\* C16: the step in which another session takes the claim by priming leaves
\* the tokens and the logits buffer of a primed session as they were, and a
\* displaced session on which no advance is in flight holds a live logits
\* buffer, so that logits() succeeds on it.
C16_DisplacedSessionReadable ==
    [][\A a \in Seqs :
          /\ \A b \in Seqs \ {a} :
                (primed[a] /\ AdvanceIssued(b) /\ ev'.engine = "prefill") =>
                    (_tokens'[a] = _tokens[a] /\ _logits'[a] = _logits[a])
          /\ (Displaced(a)' /\ ~AdvanceInFlight(a)') =>
                (_logits'[a] # Undefined /\ _logits'[a].disposed = 0)]_vars

FullMask(l, mask) == \A i \in 0..(Len(l) - 1) : isAllowed(mask, i)

\* the float value is exactly 1.0
IsOne(q) == q.den # 0 /\ q.num = q.den

\* C18: surprise returns exactly 1.0 whenever the mask allows every
\* vocabulary index, whatever the logits.
C18_SurpriseOneOnFullMask ==
    (sur.done /\ FullMask(sur.l, sur.mask)) => IsOne(sur.ret)

\* C19: when no advance is in flight on a session that holds a logits
\* buffer, the buffer is the one forwardTokens returned for the latest
\* append that succeeded, or the one prefill returned if no append has
\* succeeded.
C19_LogitsAnswerLatestAppend ==
    \A s \in Seqs :
        (~AdvanceInFlight(s) /\ _logits[s] # Undefined) =>
            appends[s].held = appends[s].ok

\* C20: no logits buffer is released more than once, no session keeps a
\* released buffer as its current logits, and logits() and sample() never
\* read a released buffer.
C20_NoUseAfterRelease ==
    /\ \A s \in Seqs : _logits[s] = Undefined \/ _logits[s].disposed = 0
    /\ ev.read = Undefined \/ ev.read.disposed = 0

\* C21: destroy() of a session that does not hold the KV-cache claim (never
\* primed, or displaced) leaves the engine's claim, the suspended calls and
\* the tokens, prompt size and logits of every other session unchanged; and
\* an advance issued on the session that holds the claim passes the claim
\* test (it is not rejected as conflicting) and leaves the claim with it.
C21_DestroyOfNonHolderKeepsClaim ==
    [][\A s \in Seqs :
          /\ (ev'.op = "destroy" /\ ev'.seq = s /\ ~HoldsClaim(s, _window_ai_seq)) =>
                /\ _window_ai_seq' = _window_ai_seq
                /\ calls' = calls
                /\ \A h \in Seqs \ {s} :
                      /\ _tokens'[h] = _tokens[h]
                      /\ _promptSize'[h] = _promptSize[h]
                      /\ _logits'[h] = _logits[h]
          /\ (AdvanceIssued(s) /\ HoldsClaim(s, _window_ai_seq)) =>
                /\ ev'.outcome \in {"ok", "pending", UnsupportedBacktrack}
                /\ HoldsClaim(s, _window_ai_seq')]_vars

\* C21 witness: a primed session that another session has displaced was
\* just destroyed, while the other session holds the claim with tokens and
\* live logits, no call suspended on it, and a further call still to come.
C21_Witness ==
    /\ ev.op = "destroy"
    /\ _promptSize[ev.seq] > 0
    /\ _window_ai_seq \in (1..nseq) \ {ev.seq}
    /\ Len(_tokens[_window_ai_seq]) > 0
    /\ _logits[_window_ai_seq] # Undefined
    /\ _logits[_window_ai_seq].disposed = 0
    /\ _promptSize[_window_ai_seq] > 0
    /\ ~InFlight(_window_ai_seq)
    /\ ncalls < MaxCalls

====
